---- MODULE Spec2Model ----
(***************************************************************************)
(* MapillaryModel (libraries/mapillary/src/components/Mapillary/           *)
(* MapillaryModel.ts): the component model that keeps a Mapillary viewer   *)
(* and a map in step.  The model is the event loop of the component: one   *)
(* action per setter, public method, event handler and per resumption of   *)
(* an async function after an await.  A step runs a handler from its       *)
(* start (or from the await it was suspended at) to its next suspension,   *)
(* as the JavaScript run-to-completion rule does.  The viewer, the host's  *)
(* command bus and the image index are the environment: their promises     *)
(* settle, resolved or rejected, at any later step.                        *)
(***************************************************************************)
EXTENDS Integers, Sequences, FiniteSets

VARIABLES
    mapillary,            \* _mapillary: 0 is undefined, else the viewer instance
    map,                  \* _map: 0 is undefined, else the map model instance
    viewReady,            \* this.map.view is set (FALSE when map is undefined)
    startSynced,          \* configuration, fixed at construction
    synced,               \* _synced
    synchronizePosition,  \* synchronizePosition (undefined reads as FALSE)
    updating,             \* updating
    handleMarkerUpdate,   \* _handleMarkerUpdate
    currentNodePosition,  \* _currentNodePosition: 0 is undefined, else the latLon of
                          \* a merged node, given by the viewer whose node it is
    currentMarkerPosition,\* currentMarkerPosition: the event it was last taken from
    viewerUpdateHandle,   \* _viewerUpdateHandle refers to a live subscription
    viewerSubs,           \* live locationMarker.updated subscriptions
    awaitViewHandle,      \* _awaitViewHandle refers to a live watch
    watches,              \* live "map.view" watches
    povListeners,         \* registrations of _onPerspectiveChange on the viewer
    throttle,             \* state of the throttle wrapper of _onPerspectiveChange
    tasks,                \* suspended async invocations, counted per await point
    markers,              \* location markers with this.id held by the host
    echoes,               \* locationMarker.updated events the host still owes
    destroyed,            \* _onDestroy has run
    last,                 \* the handler the last step ran, and its input
    trace,                \* what that step called and issued, in program order
    raised,               \* the handler's own code threw (a TypeError on undefined)
    ops,                  \* handler calls made by the environment so far
    reported,             \* what the viewer's getPosition, getPointOfView and
                          \* getFieldOfView resolve to
    camera,               \* the MapillaryCamera a cycle resolved, and the cycle
    viewpoint             \* the last map.zoomToViewpoint a cycle issued

vars == <<mapillary, map, viewReady, startSynced, synced, synchronizePosition,
          updating, handleMarkerUpdate, currentNodePosition,
          currentMarkerPosition, viewerUpdateHandle, viewerSubs,
          awaitViewHandle, watches, povListeners, throttle, tasks, markers,
          echoes, destroyed, last, trace, raised, ops, reported, camera,
          viewpoint>>

\* the values a cycle carries; the steps of the event loop leave them alone
cameraVars == <<reported, camera, viewpoint>>

\* the fields of the component and what it holds at the viewer and the host
componentVars ==
    <<mapillary, map, viewReady, synced, synchronizePosition, updating,
      handleMarkerUpdate, currentNodePosition, currentMarkerPosition,
      viewerUpdateHandle, viewerSubs, awaitViewHandle, watches, povListeners,
      throttle, tasks, markers, echoes, destroyed>>

\* ------------------------------------------------------------------ bounds

\* the number of calls (assignments, viewer and host events, recentre) a run makes
MaxOps == 4

Viewers == {1, 2}

Maps == {1, 2}

\* the features arrays of the image index's answers, each feature given by
\* its key; "" is a feature without one
FeatureLists == {<<>>, <<"">>, <<"a", "b">>}

\* what await fetch(url) / await response.json() give: a failure, or data
Responses ==
    {[failed |-> TRUE, features |-> <<>>]}
      \cup {[failed |-> FALSE, features |-> f] : f \in FeatureLists}

\* ------------------------------------------------------------ async tasks

SyncPcs == {"sync.fetch", "sync.move", "sync.camera", "sync.cmds"}

PovPcs == {"pov.camera", "pov.cmds"}

RecenterPcs == {"rec.camera", "rec.cmds"}

UnsyncPcs == {"unsync.remove"}

Pcs == SyncPcs \cup PovPcs \cup RecenterPcs \cup UnsyncPcs

RECURSIVE SumOver(_, _)
SumOver(f, S) ==
    IF S = {} THEN 0
    ELSE LET x == CHOOSE y \in S : TRUE IN f[x] + SumOver(f, S \ {x})

InFlight(S) == SumOver(tasks, S)

Inc(f, pc) == [f EXCEPT ![pc] = @ + 1]

Dec(f, pc) == [f EXCEPT ![pc] = @ - 1]

IncIf(f, c, pc) == IF c THEN Inc(f, pc) ELSE f

\* ------------------------------------------------------------ observation

Op(o, a) == [op |-> o, arg |-> a]

Res(ok) == IF ok THEN "ok" ELSE "fail"

If(c, s) == IF c THEN s ELSE <<>>

Obs(l, t, r) == last' = l /\ trace' = t /\ raised' = r /\ UNCHANGED cameraVars

IssuedIn(t, c) == \E i \in 1..Len(t) : t[i] = c

Issued(c) == IssuedIn(trace, c)

\* c is issued in t, and before the first d if d is issued at all
Before(t, c, d) ==
    \E i \in 1..Len(t) :
        /\ t[i] = c
        /\ \A j \in 1..Len(t) : t[j] = d => i < j

\* a call by the environment: counted against the length of the run
Call == ops < MaxOps /\ ops' = ops + 1

\* ------------------------------------------------------------------- Init

Init ==
    /\ mapillary = 0
    /\ map = 0
    /\ viewReady = FALSE
    /\ startSynced \in BOOLEAN
    /\ synced = FALSE
    /\ synchronizePosition = FALSE
    /\ updating = FALSE
    /\ handleMarkerUpdate = TRUE
    /\ currentNodePosition = 0
    /\ currentMarkerPosition = "none"
    /\ viewerUpdateHandle = FALSE
    /\ viewerSubs = 0
    /\ awaitViewHandle = FALSE
    /\ watches = 0
    /\ povListeners = 0
    /\ throttle = "idle"
    /\ tasks = [pc \in Pcs |-> 0]
    /\ markers = 0
    /\ echoes = 0
    /\ destroyed = FALSE
    /\ last = Op("init", "")
    /\ trace = <<>>
    /\ raised = FALSE
    /\ ops = 0
    /\ reported = [by |-> "none"]
    /\ camera = [by |-> "none"]
    /\ viewpoint = [by |-> "none"]

\* --------------------------------------------------- conditions of the code

\* _syncMaps gets past its guard
SyncRuns(m, v, s) == m # 0 /\ v # 0 /\ ~s

CleanupViewer_Never == FALSE

\* set mapillary: an instance already exists and is cleaned up first
CleanupViewer == mapillary # 0

\* set map: an instance already exists and is cleaned up first
CleanupMap == map # 0

PovGuard_IgnoresUpdating == map # 0 /\ mapillary # 0

\* _onPerspectiveChange gets past its guard
PovGuard == map # 0 /\ mapillary # 0 /\ ~updating

\* data?.features?.[0]?.properties?.key ("" when there is none)
ImgKey(res) == IF res.features = <<>> THEN "" ELSE Head(res.features)

UpdatingAfterMove_Kept(ok) == IF ok THEN updating ELSE FALSE

\* this.updating once the await of moveToKey is over, resolved or rejected
UpdatingAfterMove(ok) == FALSE

\* an instance other than the attached one; instances differ in identity only
Other(cur) == IF cur = 1 THEN 2 ELSE 1

SameInstance_Never(inst, cur) == FALSE

\* set mapillary, set map: instance === this._mapillary, instance === this._map
SameInstance(inst, cur) == inst = cur

ThrottleOpen_Always == TRUE

\* the throttle wrapper of _onPerspectiveChange lets a call through to the
\* body: none was let through in the last 128 ms
ThrottleOpen == throttle = "idle"

MapZoom_Always(sp) == <<"zoom">>

\* this.synchronizePosition ? map.zoomToViewpoint.execute(...) : undefined
MapZoom(sp) == If(sp, <<"zoom">>)

\* ----------------------------------------------------------------- setters

\* a setter that found the instance it holds: it returns at once
SetSame(setter) ==
    /\ Obs(Op(setter, "same"), <<>>, FALSE)
    /\ UNCHANGED <<mapillary, map, viewReady, startSynced, synced,
                   synchronizePosition, updating, handleMarkerUpdate,
                   currentNodePosition, currentMarkerPosition,
                   viewerUpdateHandle, viewerSubs, awaitViewHandle, watches,
                   povListeners, throttle, tasks, markers, echoes, destroyed>>

\* set mapillary(instance): nothing for the attached instance
SetMapillary(inst) ==
    /\ ~destroyed
    /\ Call
    /\ IF SameInstance(inst, mapillary) THEN SetSame("SetMapillary") ELSE
       LET cleanup == CleanupViewer
           synced1 == IF cleanup THEN FALSE ELSE synced
           throws  == ~synced1 /\ map = 0
           sync    == ~synced1 /\ map # 0 /\ viewReady
                        /\ SyncRuns(map, inst, synced1)
       IN  /\ mapillary' = inst
           /\ viewerSubs' = (IF viewerUpdateHandle THEN viewerSubs - 1 ELSE viewerSubs)
                              + (IF inst # 0 THEN 1 ELSE 0)
           /\ viewerUpdateHandle' = (inst # 0)
           /\ povListeners' = 0
           /\ markers' = IF cleanup THEN 0 ELSE markers
           /\ synced' = IF sync THEN TRUE ELSE synced1
           /\ synchronizePosition' = IF sync THEN startSynced ELSE synchronizePosition
           /\ tasks' = IncIf(IncIf(tasks, cleanup, "unsync.remove"), sync, "sync.fetch")
           /\ Obs(Op("SetMapillary", ""),
                  If(cleanup, <<"off", "activateCover", "remove">>) \o <<"store">>
                    \o If(inst # 0, <<"on", "subscribe">>) \o If(sync, <<"fetch">>),
                  throws)
           /\ UNCHANGED <<map, viewReady, startSynced, updating,
                          handleMarkerUpdate, currentNodePosition,
                          currentMarkerPosition, awaitViewHandle, watches,
                          throttle, echoes, destroyed>>

\* set map(instance): nothing for the attached instance; ready says whether
\* the instance comes with its view
SetMap(inst, ready) ==
    /\ ~destroyed
    /\ Call
    /\ inst = 0 => ~ready
    /\ inst = map => ready = viewReady
    /\ IF SameInstance(inst, map) THEN SetSame("SetMap") ELSE
       LET cleanup == CleanupMap
       IN  /\ map' = inst
           /\ viewReady' = ready
           /\ synced' = IF cleanup THEN FALSE ELSE synced
           /\ markers' = IF cleanup THEN 0 ELSE markers
           /\ tasks' = IncIf(tasks, cleanup, "unsync.remove")
           /\ watches' = watches + 1
           /\ awaitViewHandle' = TRUE
           /\ Obs(Op("SetMap", ""),
                  If(cleanup, <<"remove">>) \o <<"store", "watch">>, FALSE)
           /\ UNCHANGED <<mapillary, startSynced, synchronizePosition,
                          updating, handleMarkerUpdate, currentNodePosition,
                          currentMarkerPosition, viewerUpdateHandle, viewerSubs,
                          povListeners, throttle, echoes, destroyed>>

\* the view of the attached map becomes available
ViewArrives ==
    /\ Call
    /\ map # 0
    /\ ~viewReady
    /\ viewReady' = TRUE
    /\ Obs(Op("ViewArrives", ""), <<>>, FALSE)
    /\ UNCHANGED <<mapillary, map, startSynced, synced, synchronizePosition,
                   updating, handleMarkerUpdate, currentNodePosition,
                   currentMarkerPosition, viewerUpdateHandle, viewerSubs,
                   awaitViewHandle, watches, povListeners, throttle, tasks,
                   markers, echoes, destroyed>>

\* the callbacks of the live "map.view" watches run with a view: the first
\* removes the watch _awaitViewHandle refers to and calls _syncMaps, the
\* others find that done
WatchFires ==
    /\ watches > 0
    /\ map # 0
    /\ viewReady
    /\ LET sync == SyncRuns(map, mapillary, synced)
       IN  /\ watches' = IF awaitViewHandle THEN watches - 1 ELSE watches
           /\ awaitViewHandle' = FALSE
           /\ synced' = IF sync THEN TRUE ELSE synced
           /\ synchronizePosition' = IF sync THEN startSynced ELSE synchronizePosition
           /\ tasks' = IncIf(tasks, sync, "sync.fetch")
           /\ Obs(Op("WatchFires", ""), If(sync, <<"fetch">>), FALSE)
    /\ UNCHANGED <<mapillary, map, viewReady, startSynced, updating,
                   handleMarkerUpdate, currentNodePosition, currentMarkerPosition,
                   viewerUpdateHandle, viewerSubs, povListeners, throttle,
                   markers, echoes, destroyed, ops>>

\* ----------------------------------------------------------- viewer events

\* Viewer.nodechanged reaches _onNodeChange
NodeChange(merged) ==
    /\ Call
    /\ mapillary # 0
    /\ LET inv   == merged /\ ThrottleOpen
           start == inv /\ PovGuard
       IN  /\ currentNodePosition' = IF merged THEN mapillary ELSE 0
           /\ throttle' = IF ~merged THEN throttle
                          ELSE IF inv THEN "window" ELSE "pending"
           /\ updating' = IF start THEN TRUE ELSE updating
           /\ tasks' = IncIf(tasks, start, "pov.camera")
           /\ povListeners' = IF merged THEN povListeners + 1
                              ELSE IF povListeners > 0 THEN povListeners - 1 ELSE 0
           /\ Obs(Op("NodeChange", IF merged THEN "merged" ELSE "raw"),
                  If(inv, <<"povBody">>) \o If(start, <<"getCamera">>)
                    \o (IF merged THEN <<"on">> ELSE <<"off">>),
                  FALSE)
    /\ UNCHANGED <<mapillary, map, viewReady, startSynced, synced,
                   synchronizePosition, handleMarkerUpdate, currentMarkerPosition,
                   viewerUpdateHandle, viewerSubs, awaitViewHandle, watches,
                   markers, echoes, destroyed>>

\* Viewer.povchanged reaches every registration of the throttled handler
PovEvent ==
    /\ Call
    /\ mapillary # 0
    /\ povListeners > 0
    /\ LET inv   == ThrottleOpen
           start == inv /\ PovGuard
       IN  /\ throttle' = IF inv /\ povListeners = 1 THEN "window" ELSE "pending"
           /\ updating' = IF start THEN TRUE ELSE updating
           /\ tasks' = IncIf(tasks, start, "pov.camera")
           /\ Obs(Op("PovEvent", ""),
                  If(inv, <<"povBody">>) \o If(start, <<"getCamera">>), FALSE)
    /\ UNCHANGED <<mapillary, map, viewReady, startSynced, synced,
                   synchronizePosition, handleMarkerUpdate, currentNodePosition,
                   currentMarkerPosition, viewerUpdateHandle, viewerSubs,
                   awaitViewHandle, watches, povListeners, markers, echoes,
                   destroyed>>

\* the 128 ms of the throttle run out; a call held back meanwhile is either
\* made now (a throttle with a trailing edge) or was discarded (leading edge
\* only)
ThrottleTimer(run) ==
    /\ throttle # "idle"
    /\ run => throttle = "pending"
    /\ LET start == run /\ PovGuard
       IN  /\ throttle' = IF run THEN "window" ELSE "idle"
           /\ updating' = IF start THEN TRUE ELSE updating
           /\ tasks' = IncIf(tasks, start, "pov.camera")
           /\ Obs(Op("ThrottleTimer", IF run THEN "trailing" ELSE ""),
                  If(run, <<"povBody">>) \o If(start, <<"getCamera">>), FALSE)
    /\ UNCHANGED <<mapillary, map, viewReady, startSynced, synced,
                   synchronizePosition, handleMarkerUpdate, currentNodePosition,
                   currentMarkerPosition, viewerUpdateHandle, viewerSubs,
                   awaitViewHandle, watches, povListeners, markers, echoes,
                   destroyed, ops>>

\* _onPerspectiveChange resumes after await this._getMapillaryCamera(); echo
\* says whether the host will answer the update with locationMarker.updated
PovCameraDone(ok, echo) ==
    /\ tasks["pov.camera"] > 0
    /\ echo => ok /\ markers > 0
    /\ IF ok
       THEN /\ handleMarkerUpdate' = FALSE
            /\ tasks' = Inc(Dec(tasks, "pov.camera"), "pov.cmds")
            /\ echoes' = IF echo THEN echoes + 1 ELSE echoes
            /\ Obs(Op("PovCameraDone", "ok"),
                   <<"update">> \o MapZoom(synchronizePosition), FALSE)
       ELSE /\ tasks' = Dec(tasks, "pov.camera")
            /\ Obs(Op("PovCameraDone", "fail"), <<>>, FALSE)
            /\ UNCHANGED <<handleMarkerUpdate, echoes>>
    /\ UNCHANGED <<mapillary, map, viewReady, startSynced, synced,
                   synchronizePosition, updating, currentNodePosition,
                   currentMarkerPosition, viewerUpdateHandle, viewerSubs,
                   awaitViewHandle, watches, povListeners, throttle, markers,
                   destroyed, ops>>

\* the Promise.all of locationMarker.update and map.zoomToViewpoint settles,
\* resolved or rejected, and its finally callback runs
PovCmdsDone(ok) ==
    /\ tasks["pov.cmds"] > 0
    /\ tasks' = Dec(tasks, "pov.cmds")
    /\ updating' = FALSE
    /\ Obs(Op("PovCmdsDone", ""), <<>>, FALSE)
    /\ UNCHANGED <<mapillary, map, viewReady, startSynced, synced,
                   synchronizePosition, handleMarkerUpdate, currentNodePosition,
                   currentMarkerPosition, viewerUpdateHandle, viewerSubs,
                   awaitViewHandle, watches, povListeners, throttle, markers,
                   echoes, destroyed, ops>>

\* ------------------------------------------- moveCloseToPosition, _syncMaps

\* moveCloseToPosition, called by _syncMaps, resumes after fetch and
\* response.json().  With a key and a viewer it awaits moveToKey.  Without a
\* key, or after a failure, it clears updating and calls _activateCover;
\* _syncMaps then goes on to _getMapillaryCamera.  Without a viewer the
\* TypeError of this.mapillary.moveToKey / activateCover is caught, and the
\* catch block's _activateCover throws it again.
FetchDone(res) ==
    /\ tasks["sync.fetch"] > 0
    /\ LET viewer == mapillary # 0
           key    == IF res.failed THEN "" ELSE ImgKey(res)
           t0     == Dec(tasks, "sync.fetch")
       IN  IF key # "" /\ viewer
           THEN /\ tasks' = Inc(t0, "sync.move")
                /\ Obs(Op("FetchDone", res), <<"moveToKey", key>>, FALSE)
                /\ UNCHANGED updating
           ELSE /\ updating' = FALSE
                /\ IF viewer
                   THEN /\ tasks' = Inc(t0, "sync.camera")
                        /\ Obs(Op("FetchDone", res),
                               <<"activateCover", "getCamera">>, FALSE)
                   ELSE /\ tasks' = t0
                        /\ Obs(Op("FetchDone", res), <<>>, TRUE)
    /\ UNCHANGED <<mapillary, map, viewReady, startSynced, synced,
                   synchronizePosition, handleMarkerUpdate, currentNodePosition,
                   currentMarkerPosition, viewerUpdateHandle, viewerSubs,
                   awaitViewHandle, watches, povListeners, throttle, markers,
                   echoes, destroyed, ops>>

\* moveCloseToPosition resumes after await this.mapillary.moveToKey(imgKey);
\* _syncMaps then goes on to _getMapillaryCamera, which gives undefined
\* without a viewer, and destructuring undefined throws
MoveDone(ok) ==
    /\ tasks["sync.move"] > 0
    /\ LET viewer == mapillary # 0
           t0     == Dec(tasks, "sync.move")
       IN  /\ updating' = UpdatingAfterMove(ok)
           /\ IF viewer
              THEN /\ tasks' = Inc(t0, "sync.camera")
                   /\ Obs(Op("MoveDone", Res(ok)),
                          If(~ok, <<"activateCover">>) \o <<"getCamera">>, FALSE)
              ELSE /\ tasks' = t0
                   /\ Obs(Op("MoveDone", Res(ok)), <<>>, TRUE)
    /\ UNCHANGED <<mapillary, map, viewReady, startSynced, synced,
                   synchronizePosition, handleMarkerUpdate, currentNodePosition,
                   currentMarkerPosition, viewerUpdateHandle, viewerSubs,
                   awaitViewHandle, watches, povListeners, throttle, markers,
                   echoes, destroyed, ops>>

\* _syncMaps resumes after await this._getMapillaryCamera()
SyncCameraDone(ok) ==
    /\ tasks["sync.camera"] > 0
    /\ IF ok
       THEN /\ tasks' = Inc(Dec(tasks, "sync.camera"), "sync.cmds")
            /\ markers' = markers + 1
            /\ Obs(Op("SyncCameraDone", "ok"),
                   <<"create">> \o MapZoom(synchronizePosition), FALSE)
       ELSE /\ tasks' = Dec(tasks, "sync.camera")
            /\ Obs(Op("SyncCameraDone", "fail"), <<>>, FALSE)
            /\ UNCHANGED markers
    /\ UNCHANGED <<mapillary, map, viewReady, startSynced, synced,
                   synchronizePosition, updating, handleMarkerUpdate,
                   currentNodePosition, currentMarkerPosition,
                   viewerUpdateHandle, viewerSubs, awaitViewHandle, watches,
                   povListeners, throttle, echoes, destroyed, ops>>

\* the last await of _syncMaps, _unsyncMaps or recenter settles, resolved or
\* rejected, and the function is over
CmdsDone(pc, ok) ==
    /\ pc \in {"sync.cmds", "unsync.remove", "rec.cmds"}
    /\ tasks[pc] > 0
    /\ tasks' = Dec(tasks, pc)
    /\ Obs(Op(pc, ""), <<>>, FALSE)
    /\ UNCHANGED <<mapillary, map, viewReady, startSynced, synced,
                   synchronizePosition, updating, handleMarkerUpdate,
                   currentNodePosition, currentMarkerPosition,
                   viewerUpdateHandle, viewerSubs, awaitViewHandle, watches,
                   povListeners, throttle, markers, echoes, destroyed, ops>>

\* ---------------------------------------------------------------- recenter

\* recenter(): without a viewer _getMapillaryCamera gives undefined and the
\* destructuring of it throws
Recenter ==
    /\ ~destroyed
    /\ Call
    /\ LET viewer == mapillary # 0
       IN  /\ tasks' = IncIf(tasks, viewer, "rec.camera")
           /\ Obs(Op("Recenter", ""), If(viewer, <<"getCamera">>), ~viewer)
    /\ UNCHANGED <<mapillary, map, viewReady, startSynced, synced,
                   synchronizePosition, updating, handleMarkerUpdate,
                   currentNodePosition, currentMarkerPosition,
                   viewerUpdateHandle, viewerSubs, awaitViewHandle, watches,
                   povListeners, throttle, markers, echoes, destroyed>>

\* recenter resumes after await this._getMapillaryCamera()
RecCameraDone(ok) ==
    /\ tasks["rec.camera"] > 0
    /\ tasks' = IncIf(Dec(tasks, "rec.camera"), ok, "rec.cmds")
    /\ Obs(Op("RecCameraDone", Res(ok)), If(ok, <<"zoom">>), FALSE)
    /\ UNCHANGED <<mapillary, map, viewReady, startSynced, synced,
                   synchronizePosition, updating, handleMarkerUpdate,
                   currentNodePosition, currentMarkerPosition,
                   viewerUpdateHandle, viewerSubs, awaitViewHandle, watches,
                   povListeners, throttle, markers, echoes, destroyed, ops>>

\* ------------------------------------------------ host events and teardown

\* locationMarker.updated: the echo of an update command, or a user's drag
\* of the marker; _handleViewerUpdate runs if a subscription is live
MarkerUpdated(kind) ==
    /\ IF kind = "echo"
       THEN echoes > 0 /\ echoes' = echoes - 1 /\ UNCHANGED ops
       ELSE markers > 0 /\ viewerSubs > 0 /\ Call /\ UNCHANGED echoes
    /\ IF viewerSubs > 0
       THEN /\ currentMarkerPosition' =
                 IF handleMarkerUpdate THEN kind ELSE currentMarkerPosition
            /\ handleMarkerUpdate' = TRUE
       ELSE UNCHANGED <<currentMarkerPosition, handleMarkerUpdate>>
    /\ Obs(Op("MarkerUpdated", kind), <<>>, FALSE)
    /\ UNCHANGED <<mapillary, map, viewReady, startSynced, synced,
                   synchronizePosition, updating, currentNodePosition,
                   viewerUpdateHandle, viewerSubs, awaitViewHandle, watches,
                   povListeners, throttle, tasks, markers, destroyed>>

\* _onDestroy
Destroy ==
    /\ ~destroyed
    /\ Call
    /\ destroyed' = TRUE
    /\ viewerSubs' = IF viewerUpdateHandle THEN viewerSubs - 1 ELSE viewerSubs
    /\ viewerUpdateHandle' = FALSE
    /\ watches' = IF awaitViewHandle THEN watches - 1 ELSE watches
    /\ awaitViewHandle' = FALSE
    /\ Obs(Op("Destroy", ""), <<>>, FALSE)
    /\ UNCHANGED <<mapillary, map, viewReady, startSynced, synced,
                   synchronizePosition, updating, handleMarkerUpdate,
                   currentNodePosition, currentMarkerPosition, povListeners,
                   throttle, tasks, markers, echoes>>

\* ------------------------------------------------------------------- Next

Next ==
    \/ \E inst \in {0, Other(mapillary)} \ {mapillary} : SetMapillary(inst)
    \/ \E inst \in {0, Other(map)} \ {map}, ready \in BOOLEAN : SetMap(inst, ready)
    \/ ViewArrives
    \/ WatchFires
    \/ \E merged \in BOOLEAN : NodeChange(merged)
    \/ PovEvent
    \/ \E run \in BOOLEAN : ThrottleTimer(run)
    \/ \E ok \in BOOLEAN : PovCameraDone(ok, FALSE)
    \/ \E ok \in BOOLEAN : PovCmdsDone(ok)
    \/ \E res \in Responses : FetchDone(res)
    \/ \E ok \in BOOLEAN : MoveDone(ok)
    \/ \E ok \in BOOLEAN : SyncCameraDone(ok)
    \/ \E pc \in {"sync.cmds", "unsync.remove", "rec.cmds"}, ok \in BOOLEAN : CmdsDone(pc, ok)
    \/ Recenter
    \/ \E ok \in BOOLEAN : RecCameraDone(ok)

Spec == Init /\ [][Next]_vars

\* the component with the host's marker events, assignments of the instance
\* a setter already holds, and its teardown as well
HostNext ==
    \/ Next
    \/ SetMapillary(mapillary)
    \/ SetMap(map, viewReady)
    \/ \E ok \in BOOLEAN : PovCameraDone(ok, TRUE)
    \/ \E kind \in {"echo", "drag"} : MarkerUpdated(kind)
    \/ Destroy

HostSpec == Init /\ [][HostNext]_vars

\* the component once a map with its view and a viewer are attached and the
\* synchronize that this starts is over: the watch has fired and is removed,
\* the viewer was covered for want of an image, the marker is created
Attached ==
    /\ mapillary = 1
    /\ map = 1
    /\ viewReady = TRUE
    /\ synced = TRUE
    /\ synchronizePosition = startSynced
    /\ updating = FALSE
    /\ handleMarkerUpdate = TRUE
    /\ currentMarkerPosition = "none"
    /\ viewerUpdateHandle = TRUE
    /\ viewerSubs = 1
    /\ awaitViewHandle = FALSE
    /\ watches = 0
    /\ povListeners = 0
    /\ throttle = "idle"
    /\ tasks = [pc \in Pcs |-> 0]
    /\ markers = 1
    /\ echoes = 0
    /\ destroyed = FALSE
    /\ last = Op("sync.cmds", "")
    /\ trace = <<>>
    /\ raised = FALSE

\* and no merged node has been seen
Synced ==
    /\ Attached
    /\ currentNodePosition = 0
    /\ reported = [by |-> "none"]
    /\ camera = [by |-> "none"]
    /\ viewpoint = [by |-> "none"]

\* calls are counted from there
SyncedInit == startSynced \in BOOLEAN /\ Synced /\ ops = 0

\* what the viewer, the host's marker and the user's recentre do to a
\* synchronized component
ViewingNext ==
    \/ \E merged \in BOOLEAN : NodeChange(merged)
    \/ PovEvent
    \/ \E run \in BOOLEAN : ThrottleTimer(run)
    \/ \E ok, echo \in BOOLEAN : PovCameraDone(ok, echo)
    \/ \E ok \in BOOLEAN : PovCmdsDone(ok)
    \/ \E kind \in {"echo", "drag"} : MarkerUpdated(kind)
    \/ Recenter
    \/ \E ok \in BOOLEAN : RecCameraDone(ok)
    \/ \E ok \in BOOLEAN : CmdsDone("rec.cmds", ok)

ViewingSpec == SyncedInit /\ [][ViewingNext]_vars

\* ------------------------------------------------------ the resolved camera

\* node.latLon of the merged node of a viewer
latLon(v) == [lat |-> 50 + v, lon |-> 10 + v]

\* what getPosition() resolves to: a raw GPS value, which may or may not be
\* the computed position of the node
RawPositions == {[lat |-> 50, lon |-> 10], latLon(1)}

\* bearings in [0, 360), tilts and fields of view the viewer reports
Bearings == {0, 180, 359}

Tilts == {0 - 90, 45}

Fovs == {60, 90}

Reports ==
    {[by |-> "viewer", position |-> p, bearing |-> b, tilt |-> t, fov |-> f] :
        p \in RawPositions, b \in Bearings, t \in Tilts, f \in Fovs}

getCameraRotationFromBearing_Mod(bearing) == (360 - bearing) % 360

\* getCameraRotationFromBearing
getCameraRotationFromBearing(bearing) == 360 - bearing

GetMapillaryCamera_RawPosition(cached, rep) ==
    [latitude |-> rep.position.lat, longitude |-> rep.position.lon,
     heading |-> rep.bearing, tilt |-> rep.tilt + 90, fov |-> rep.fov]

\* _getMapillaryCamera with a viewer attached: this._currentNodePosition ??
\* getPosition(), getPointOfView() and getFieldOfView() combined
GetMapillaryCamera(cached, rep) ==
    LET position == IF cached # 0 THEN latLon(cached) ELSE rep.position
    IN  [latitude |-> position.lat, longitude |-> position.lon,
         heading |-> rep.bearing, tilt |-> rep.tilt + 90, fov |-> rep.fov]

\* the camera of the viewer pans, tilts or zooms, or the viewer moves on
ViewerMoves(r) ==
    /\ r # reported
    /\ reported' = r
    /\ last' = Op("ViewerMoves", "")
    /\ trace' = <<>>
    /\ raised' = FALSE
    /\ UNCHANGED <<componentVars, startSynced, ops, camera, viewpoint>>

\* await this._getMapillaryCamera() in _syncMaps ("sync"), in
\* _onPerspectiveChange ("pov") or in recenter ("rec") resolves
ResolveCamera(by) ==
    /\ mapillary # 0
    /\ camera' = [by |-> by,
                  value |-> GetMapillaryCamera(currentNodePosition, reported)]
    /\ last' = Op("ResolveCamera", by)
    /\ trace' = <<"getCamera">>
    /\ raised' = FALSE
    /\ UNCHANGED <<componentVars, startSynced, ops, reported, viewpoint>>

\* the cycle that resolved the camera issues its map.zoomToViewpoint:
\* recenter always, the others if synchronizePosition
ZoomToViewpoint ==
    /\ camera.by # "none"
    /\ camera.by # "rec" => MapZoom(synchronizePosition) # <<>>
    /\ viewpoint' =
          [by |-> camera.by,
           rotation |-> getCameraRotationFromBearing(camera.value.heading),
           targetGeometry |-> <<camera.value.latitude, camera.value.longitude>>]
    /\ last' = Op("ZoomToViewpoint", camera.by)
    /\ trace' = <<"zoom">>
    /\ raised' = FALSE
    /\ UNCHANGED <<componentVars, startSynced, ops, reported, camera>>

\* a viewer and a map attached, the cached position and what the viewer
\* reports drawn from their ranges
CameraInit ==
    /\ startSynced \in BOOLEAN
    /\ Attached
    /\ ops = 0
    /\ currentNodePosition \in {0} \cup Viewers
    /\ reported \in Reports
    /\ camera = [by |-> "none"]
    /\ viewpoint = [by |-> "none"]

CameraNext ==
    \/ \E r \in Reports : ViewerMoves(r)
    \/ \E by \in {"sync", "pov", "rec"} : ResolveCamera(by)
    \/ ZoomToViewpoint

CameraSpec == CameraInit /\ [][CameraNext]_vars

\* ------------------------------------------------------------------ claims

NoTasks == InFlight(Pcs) = 0

PovInFlight == InFlight(PovPcs)

\* the viewer handle or the map handle is replaced or cleared in this step,
\* and a previous handle existed
HandleReplaced ==
    \/ mapillary # 0 /\ mapillary' # mapillary
    \/ map # 0 /\ map' # map

NoHostCommand ==
    ~Issued("remove") /\ ~Issued("create") /\ ~Issued("update") /\ ~Issued("zoom")

\* C1: at most one location marker with the component's id exists at any
\* time: no create is issued while a marker created earlier is not removed.
C1_AtMostOneMarker == markers <= 1

\* C2: after the final unsynchronize, once every asynchronous handler in
\* flight has completed, no location marker is left.
C2_NoMarkerAfterFinalUnsync == (~synced /\ NoTasks) => markers = 0

\* C3 as claimed: when a handle is replaced or cleared while a previous one
\* existed, the remove of unsynchronize has completed by the time the new
\* handle is stored, so none is in flight when the setter is over.
C3_RemoveCompletedBeforeStore ==
    [][HandleReplaced => tasks'["unsync.remove"] = 0]_vars

\* C3 as amended: when a handle is replaced or cleared while a previous one
\* existed, the remove of unsynchronize has been issued, and is left in
\* flight, before the new handle is stored and before any synchronize for
\* the new handle begins.
C3_RemoveIssuedBeforeStore ==
    [][HandleReplaced =>
          /\ Before(trace', "remove", "store")
          /\ Before(trace', "store", "fetch")
          /\ tasks'["unsync.remove"] = tasks["unsync.remove"] + 1]_vars

\* a viewer was replaced by another, its marker's remove is in flight and
\* the synchronize for the new viewer has begun
C3_Witness ==
    /\ last.op = "SetMapillary"
    /\ Issued("remove")
    /\ Issued("fetch")
    /\ tasks["unsync.remove"] > 0

\* C4: updating is true as long as a point-of-view propagation cycle is in
\* flight, and so two cycles are never in flight at the same time.
C4_UpdatingWhileCycleInFlight ==
    /\ PovInFlight > 0 => updating
    /\ PovInFlight <= 1

\* C5: every propagation cycle that set updating has set it back to false
\* when it is over, whether camera resolution, the marker update or the map
\* recentre succeeded or failed.
C5_CycleEndClearsUpdating ==
    [][SumOver(tasks', PovPcs) < SumOver(tasks, PovPcs) => ~updating']_vars

C7_AssignInEitherOrder ==
    /\ (last.op = "SetMapillary" /\ map = 0) => ~raised /\ NoHostCommand
    /\ (last.op = "SetMap" /\ mapillary = 0) => ~raised /\ NoHostCommand
    /\ Issued("fetch") => map # 0 /\ mapillary # 0 /\ viewReady

\* C8: recenter without a viewer completes without an error and issues no
\* map.zoomToViewpoint.
C8_RecenterWithoutViewer ==
    (last.op = "Recenter" /\ mapillary = 0) => ~raised /\ ~Issued("zoom")

\* C9: when the image index gives no feature, or the request fails,
\* moveCloseToPosition calls activateCover, does not call moveToKey, leaves
\* updating false and lets no error out, whatever the state of the component.
C9_NoImageCovers ==
    (last.op = "FetchDone" /\ (last.arg.failed \/ last.arg.features = <<>>)) =>
        /\ Issued("activateCover")
        /\ ~Issued("moveToKey")
        /\ ~updating
        /\ ~raised

\* C10 as claimed, for an answer whose first feature has a key and a viewer
\* that is attached: moveToKey is called with that key, activateCover is not
\* called, and updating is false once moveCloseToPosition is over.
C10_KeyMovesNeverCovers ==
    mapillary # 0 =>
        /\ (last.op = "FetchDone" /\ ~last.arg.failed /\ ImgKey(last.arg) # "") =>
              /\ trace = <<"moveToKey", last.arg.features[1]>>
              /\ ~Issued("activateCover")
        /\ last.op = "MoveDone" => ~Issued("activateCover") /\ ~updating

\* C10 as amended: for an answer whose first feature has a key, the attached
\* viewer is told to moveToKey with that key and activateCover is not called
\* then; activateCover is called afterwards only if that moveToKey rejects;
\* updating is false once moveCloseToPosition is over.  With no viewer
\* attached nothing is asked of a viewer and the call fails, updating false.
C10_KeyMovesCoverOnlyOnReject ==
    /\ (last.op = "FetchDone" /\ ~last.arg.failed /\ ImgKey(last.arg) # "") =>
          IF mapillary # 0
          THEN trace = <<"moveToKey", last.arg.features[1]>> /\ ~raised
          ELSE trace = <<>> /\ raised /\ ~updating
    /\ last.op = "MoveDone" =>
          /\ ~updating
          /\ ~Issued("moveToKey")
          /\ Issued("activateCover") => last.arg = "fail" /\ mapillary # 0

\* moveToKey has resolved with the viewer attached and moveCloseToPosition is
\* over without a call of activateCover
C10_Witness ==
    /\ last.op = "MoveDone"
    /\ last.arg = "ok"
    /\ mapillary # 0
    /\ ~Issued("activateCover")
    /\ ~updating

C12_UnmergedNodeSilencesPov ==
    [][(last.op = "NodeChange" /\ last.arg = "raw" /\ last'.op = "PovEvent") =>
          /\ ~IssuedIn(trace', "getCamera")
          /\ SumOver(tasks', PovPcs) = SumOver(tasks, PovPcs)]_vars

\* C13: assigning the viewer, or the map, the instance it already holds
\* attaches and detaches no listener, adds and removes no subscription and
\* no watch, issues no command, starts no synchronize, raises nothing and
\* leaves the state of the component as it was.
C13_SameInstanceIdempotent ==
    [][(\/ last'.op = "SetMapillary" /\ mapillary' = mapillary
        \/ last'.op = "SetMap" /\ map' = map) =>
          /\ trace' = <<>>
          /\ ~raised'
          /\ UNCHANGED componentVars]_vars

\* the attached viewer, or the attached map, was assigned again while both
\* are attached and synchronized
C13_Witness ==
    /\ last.op \in {"SetMapillary", "SetMap"}
    /\ last.arg = "same"
    /\ mapillary # 0
    /\ map # 0
    /\ synced

\* C14: with a viewer attached _getMapillaryCamera gives the cached merged
\* position when one is cached, never the raw GPS position the viewer would
\* report, and that raw position otherwise; the bearing the viewer reports
\* as heading; the tilt it reports plus 90; the field of view it reports.
C14_ResolvedCamera ==
    [][last'.op = "ResolveCamera" =>
          /\ IF currentNodePosition # 0
             THEN /\ camera'.value.latitude = latLon(currentNodePosition).lat
                  /\ camera'.value.longitude = latLon(currentNodePosition).lon
             ELSE /\ camera'.value.latitude = reported.position.lat
                  /\ camera'.value.longitude = reported.position.lon
          /\ camera'.value.heading = reported.bearing
          /\ camera'.value.tilt = reported.tilt + 90
          /\ camera'.value.fov = reported.fov]_vars

\* a position P is cached, the viewer would report another, and the camera
\* was resolved to P
C14_Witness ==
    /\ last.op = "ResolveCamera"
    /\ currentNodePosition # 0
    /\ reported.position # latLon(currentNodePosition)
    /\ camera.value.latitude = latLon(currentNodePosition).lat
    /\ camera.value.longitude = latLon(currentNodePosition).lon

\* C15: the rotation of every map.zoomToViewpoint, be it of synchronize, of
\* the point-of-view handler or of recenter, is 360 minus the heading that
\* the same cycle resolved, for every heading in [0, 360).
C15_RotationIs360MinusHeading ==
    [][last'.op = "ZoomToViewpoint" =>
          /\ viewpoint'.by = camera.by
          /\ camera.value.heading \in 0..359
          /\ viewpoint'.rotation = 360 - camera.value.heading]_vars

\* the point-of-view handler resolved heading 0 and recentred the map with
\* rotation 360, the viewer having turned on since
C15_Witness ==
    /\ last.op = "ZoomToViewpoint"
    /\ viewpoint.by = "pov"
    /\ camera.value.heading = 0
    /\ viewpoint.rotation = 360
    /\ reported.bearing # 0

\* C16: a locationMarker.updated event is ignored exactly when it is the
\* echo of the component's own locationMarker.update: an echo leaves
\* currentMarkerPosition as it was, and every drag by the user is recorded
\* in it, however drags, updates and updates without an echo interleave.
C16_OnlyEchoesIgnored ==
    [][last'.op = "MarkerUpdated" =>
          IF last'.arg = "echo"
          THEN UNCHANGED currentMarkerPosition
          ELSE currentMarkerPosition' = "drag"]_vars

\* C17: while synchronizePosition is false, synchronize issues its
\* locationMarker.create alone and the point-of-view handler its
\* locationMarker.update alone, neither a map.zoomToViewpoint; recenter
\* issues its map.zoomToViewpoint whatever synchronizePosition is.
C17_NoZoomUnlessSynchronizePosition ==
    /\ (last.op = "SyncCameraDone" /\ last.arg = "ok" /\ ~synchronizePosition)
          => trace = <<"create">>
    /\ (last.op = "PovCameraDone" /\ last.arg = "ok" /\ ~synchronizePosition)
          => trace = <<"update">>
    /\ (Issued("zoom") /\ ~synchronizePosition) => last.op = "RecCameraDone"
    /\ (last.op = "RecCameraDone" /\ last.arg = "ok") => Issued("zoom")

\* the component is synchronized with synchronizePosition false and the
\* point-of-view handler has just issued an update and nothing else
C17_Witness ==
    /\ last.op = "PovCameraDone"
    /\ last.arg = "ok"
    /\ synced
    /\ ~synchronizePosition
    /\ trace = <<"update">>

\* C18: a locationMarker.update is issued only while a marker created by
\* the component exists: after the create of the current synchronize and
\* before the remove of the next unsynchronize.
C18_UpdateOnlyWithMarker == Issued("update") => markers > 0 /\ synced

\* C19: a cached merged position is that of the current node of the
\* attached viewer: _getMapillaryCamera is never called with a position
\* cached from a viewer that has since been replaced or cleared.
C19_CacheIsOfAttachedViewer ==
    (Issued("getCamera") /\ currentNodePosition # 0) =>
        currentNodePosition = mapillary

\* C20: before destruction one locationMarker.updated subscription is
\* live when a viewer is attached and none when none is; after destruction
\* no subscription and no "map.view" watch is left.
C20_SubscriptionsAndWatches ==
    /\ ~destroyed => viewerSubs = (IF mapillary # 0 THEN 1 ELSE 0)
    /\ destroyed => viewerSubs = 0 /\ watches = 0

====
